---- MODULE Spec2Model ----
(***************************************************************************)
(* Model of src/news_agent/news_agent.py: the reflex State of the news     *)
(* page and its background event handler process_news.                     *)
(*                                                                         *)
(* Every `async with self:` block of process_news is one atomic step (the  *)
(* block holds the state lock).  Whatever the handler does outside such a  *)
(* block is not covered by the lock: building a request reads the State    *)
(* field as it is when the request is built, and the call to client.run is *)
(* a step of its own, separate from the commit before it and from the      *)
(* commit of its reply.  Each click on the button starts one background    *)
(* task; update_topic is an ordinary event handler and runs under the      *)
(* lock as one step.                                                       *)
(***************************************************************************)
EXTENDS Naturals, Sequences, FiniteSets, TLC

\* Number of process_news tasks that are started in one behaviour.
MaxRuns == 2

Runs == 1..MaxRuns

\* Values the input box can deliver to update_topic (the default topic included).
Topics == {"AI Agents", ""}

\* Values of response.messages[-1]["content"] that a client.run call returns.
Contents == {"", "n1"}

\* Values of str(e) of an exception raised inside the try block.
Errors == {"", "timeout"}

\* A local of process_news that is not bound yet.
Unbound == "<unbound>"

VARIABLES
    State,               \* the rx.State instance: the six fields of lines 87-92
    pc,                  \* pc[r]: position of task r in process_news
    search_response,     \* search_response[r]: content of the local of line 110
    synthesis_response,  \* synthesis_response[r]: content of the local of line 118
    summary_response,    \* summary_response[r]: content of the local of line 126
    e,                   \* e[r]: str(e) of the exception caught at line 135
    request,             \* request[r]: the request task r has pending in client.run
    invoked,             \* invoked[r]: the agents task r has passed to client.run, in order
    button_loading       \* the is_loading value the browser has rendered on the button

vars == <<State, pc, search_response, synthesis_response, summary_response, e,
          request, invoked, button_loading>>

locals == <<search_response, synthesis_response, summary_response, e>>
calls == <<request, invoked>>

\* Positions of a task: not started; started, reset not committed; ready to
\* call an agent; waiting for an agent's reply; ended.
Waiting == {"search_wait", "synthesis_wait", "summary_wait"}
InProgress == {"search", "synthesis", "summary"} \cup Waiting
Ended == {"completed", "failed"}

-----------------------------------------------------------------------------
(* The State class, lines 85-92 *)

StateDefaults ==
    [topic |-> "AI Agents", raw_news |-> "", synthesized_news |-> "",
     final_summary |-> "", is_loading |-> FALSE, error_message |-> ""]

-----------------------------------------------------------------------------
(* The commits of process_news, as functions of the State they are applied to *)

\* reset that forgets to clear the error of the previous run
reset_keeps_error(s) ==
    [s EXCEPT !.is_loading = TRUE, !.raw_news = "", !.synthesized_news = "",
              !.final_summary = ""]

\* lines 98-106
reset(s) ==
    [s EXCEPT !.is_loading = TRUE, !.error_message = "", !.raw_news = "",
              !.synthesized_news = "", !.final_summary = ""]

\* lines 114-115
write_raw_news(s, content) == [s EXCEPT !.raw_news = content]

\* lines 122-123
write_synthesized_news(s, content) == [s EXCEPT !.synthesized_news = content]

\* a success commit that sets final_summary and leaves is_loading for later
write_final_summary_keeps_loading(s, content) == [s EXCEPT !.final_summary = content]

\* lines 131-133
write_final_summary(s, content) ==
    [s EXCEPT !.final_summary = content, !.is_loading = FALSE]

\* lines 137-139
write_error(s, msg) ==
    [s EXCEPT !.error_message = "An error occurred: " \o msg, !.is_loading = FALSE]

\* update_topic that validates its argument and ignores an empty topic
update_topic_validated(s, topic) ==
    IF topic = "" THEN s ELSE [s EXCEPT !.topic = topic]

\* lines 141-143
update_topic(s, topic) == [s EXCEPT !.topic = topic]

-----------------------------------------------------------------------------
(* The requests of process_news: the content of the user message *)

\* a Search request built from the default topic, not from the topic held now
search_request_default(s) == "Find recent news about " \o "AI Agents"

\* line 112
search_request(s) == "Find recent news about " \o s.topic

\* line 120
synthesis_request(s) == "Synthesize these news articles:\n" \o s.raw_news

\* line 128
summary_request(s) == "Summarize this synthesis:\n" \o s.synthesized_news

Request(agent, content) == [agent |-> agent, content |-> content]

\* No call of client.run is pending.
NoRequest == Request("none", "")

-----------------------------------------------------------------------------
(* The page, lines 156-162: the button is disabled while it renders loading *)

button_enabled == ~button_loading

-----------------------------------------------------------------------------
Init ==
    /\ State = StateDefaults
    /\ pc = [r \in Runs |-> "none"]
    /\ search_response = [r \in Runs |-> Unbound]
    /\ synthesis_response = [r \in Runs |-> Unbound]
    /\ summary_response = [r \in Runs |-> Unbound]
    /\ e = [r \in Runs |-> Unbound]
    /\ request = [r \in Runs |-> NoRequest]
    /\ invoked = [r \in Runs |-> <<>>]
    /\ button_loading = FALSE

\* on_change=State.update_topic (line 153)
UpdateTopic(v) ==
    /\ State' = update_topic(State, v)
    /\ UNCHANGED <<pc, locals, calls, button_loading>>

\* on_click=State.process_news (line 158): a background task is created.
\* Tasks are numbered in the order they are started.
Click(r) ==
    /\ button_enabled
    /\ pc[r] = "none"
    /\ \A q \in Runs : q < r => pc[q] # "none"
    /\ pc' = [pc EXCEPT ![r] = "reset"]
    /\ UNCHANGED <<State, locals, calls, button_loading>>

\* The state update emitted by a commit reaches the browser (loading=State.is_loading).
Render ==
    /\ button_loading # State.is_loading
    /\ button_loading' = State.is_loading
    /\ UNCHANGED <<State, pc, locals, calls>>

\* lines 98-106
Reset(r) ==
    /\ pc[r] = "reset"
    /\ State' = reset(State)
    /\ pc' = [pc EXCEPT ![r] = "search"]
    /\ UNCHANGED <<locals, calls, button_loading>>

\* lines 110-113: the request is built and client.run is called
CallSearch(r) ==
    /\ pc[r] = "search"
    /\ request' = [request EXCEPT ![r] = Request("search_agent", search_request(State))]
    /\ invoked' = [invoked EXCEPT ![r] = Append(@, "search_agent")]
    /\ pc' = [pc EXCEPT ![r] = "search_wait"]
    /\ UNCHANGED <<State, locals, button_loading>>

\* lines 110-115: client.run returns and its content is committed
SearchReturn(r, content) ==
    /\ pc[r] = "search_wait"
    /\ search_response' = [search_response EXCEPT ![r] = content]
    /\ State' = write_raw_news(State, content)
    /\ pc' = [pc EXCEPT ![r] = "synthesis"]
    /\ request' = [request EXCEPT ![r] = NoRequest]
    /\ UNCHANGED <<synthesis_response, summary_response, e, invoked, button_loading>>

\* lines 118-121
CallSynthesis(r) ==
    /\ pc[r] = "synthesis"
    /\ request' = [request EXCEPT ![r] = Request("synthesis_agent", synthesis_request(State))]
    /\ invoked' = [invoked EXCEPT ![r] = Append(@, "synthesis_agent")]
    /\ pc' = [pc EXCEPT ![r] = "synthesis_wait"]
    /\ UNCHANGED <<State, locals, button_loading>>

\* lines 118-123
SynthesisReturn(r, content) ==
    /\ pc[r] = "synthesis_wait"
    /\ synthesis_response' = [synthesis_response EXCEPT ![r] = content]
    /\ State' = write_synthesized_news(State, content)
    /\ pc' = [pc EXCEPT ![r] = "summary"]
    /\ request' = [request EXCEPT ![r] = NoRequest]
    /\ UNCHANGED <<search_response, summary_response, e, invoked, button_loading>>

\* lines 126-129
CallSummary(r) ==
    /\ pc[r] = "summary"
    /\ request' = [request EXCEPT ![r] = Request("summary_agent", summary_request(State))]
    /\ invoked' = [invoked EXCEPT ![r] = Append(@, "summary_agent")]
    /\ pc' = [pc EXCEPT ![r] = "summary_wait"]
    /\ UNCHANGED <<State, locals, button_loading>>

\* lines 126-133
SummaryReturn(r, content) ==
    /\ pc[r] = "summary_wait"
    /\ summary_response' = [summary_response EXCEPT ![r] = content]
    /\ State' = write_final_summary(State, content)
    /\ pc' = [pc EXCEPT ![r] = "completed"]
    /\ request' = [request EXCEPT ![r] = NoRequest]
    /\ UNCHANGED <<search_response, synthesis_response, e, invoked, button_loading>>

\* an except block that calls the failed stage again instead of ending the run
Raise_retries(r, msg) ==
    /\ pc[r] \in Waiting
    /\ e' = [e EXCEPT ![r] = msg]
    /\ pc' = [pc EXCEPT ![r] = CASE pc[r] = "search_wait" -> "search"
                                 [] pc[r] = "synthesis_wait" -> "synthesis"
                                 [] OTHER -> "failed"]
    /\ State' = IF pc[r] = "summary_wait" THEN write_error(State, msg) ELSE State
    /\ request' = [request EXCEPT ![r] = NoRequest]
    /\ UNCHANGED <<search_response, synthesis_response, summary_response, invoked,
                   button_loading>>

\* lines 135-139: the pending call of the try block raises
Raise(r, msg) ==
    /\ pc[r] \in Waiting
    /\ e' = [e EXCEPT ![r] = msg]
    /\ State' = write_error(State, msg)
    /\ pc' = [pc EXCEPT ![r] = "failed"]
    /\ request' = [request EXCEPT ![r] = NoRequest]
    /\ UNCHANGED <<search_response, synthesis_response, summary_response, invoked,
                   button_loading>>

\* lines 94-139: the steps of task r
process_news(r) ==
    \/ Reset(r)
    \/ CallSearch(r)
    \/ \E content \in Contents : SearchReturn(r, content)
    \/ CallSynthesis(r)
    \/ \E content \in Contents : SynthesisReturn(r, content)
    \/ CallSummary(r)
    \/ \E content \in Contents : SummaryReturn(r, content)
    \/ \E msg \in Errors : Raise(r, msg)

Next ==
    \/ \E v \in Topics : UpdateTopic(v)
    \/ \E r \in Runs : Click(r)
    \/ Render
    \/ \E r \in Runs : process_news(r)

Spec == Init /\ [][Next]_vars

\* Every started task is scheduled and every client.run call returns or raises.
FairSpec == Spec /\ \A r \in Runs : WF_vars(process_news(r))

-----------------------------------------------------------------------------
(* Steps of a task, recognised by the positions before and after *)

CommitsReset(r) == pc[r] = "reset" /\ pc'[r] = "search"
EndsCompleted(r) == pc[r] = "summary_wait" /\ pc'[r] = "completed"
EndsFailedAt(r, stage) == pc[r] = stage /\ pc'[r] = "failed"

NoResults(s) ==
    s.raw_news = "" /\ s.synthesized_news = "" /\ s.final_summary = ""

-----------------------------------------------------------------------------
\* C1: a run of process_news first commits is_loading = TRUE with
\* error_message, raw_news, synthesized_news and final_summary all empty; it
\* has made no external call before that commit, and the first call it makes
\* after it is the Search call.
C1_ResetBeforeFirstCall ==
    [][\A r \in Runs :
         /\ pc[r] \in {"none", "reset"} => invoked[r] = <<>>
         /\ (pc[r] = "reset" /\ pc'[r] # "reset") =>
               /\ State'.is_loading = TRUE
               /\ State'.error_message = ""
               /\ NoResults(State')
               /\ invoked'[r] = <<>>
         /\ (invoked[r] = <<>> /\ invoked'[r] # <<>>) =>
               /\ pc[r] \notin {"none", "reset"}
               /\ invoked'[r] = <<"search_agent">>
      ]_vars

\* A second run, started from the Failed state of the first, has committed its
\* reset (the error of the first run is cleared) and has its Search call pending.
C1_Witness ==
    /\ pc[1] = "failed"
    /\ pc[2] = "search_wait"
    /\ invoked[2] = <<"search_agent">>
    /\ State.is_loading = TRUE
    /\ State.error_message = ""
    /\ NoResults(State)

\* C2: when a run whose three calls all succeeded ends, is_loading is FALSE,
\* error_message is empty and final_summary is the content the Summarize call
\* returned, that call having been given the run's own Synthesize output.
C2_SuccessTerminalState ==
    [][\A r \in Runs :
         EndsCompleted(r) =>
            /\ State'.is_loading = FALSE
            /\ State'.error_message = ""
            /\ State'.final_summary = summary_response'[r]
            /\ request[r] = Request("summary_agent",
                                    "Summarize this synthesis:\n" \o synthesis_response[r])
      ]_vars

\* C3: when a run whose Search call failed ends, raw_news is empty,
\* error_message is non-empty, is_loading is FALSE and the run has invoked
\* neither Synthesize nor Summarize.
C3_SearchFailure ==
    [][\A r \in Runs :
         EndsFailedAt(r, "search_wait") =>
            /\ State'.raw_news = ""
            /\ State'.error_message # ""
            /\ State'.is_loading = FALSE
            /\ invoked'[r] = <<"search_agent">>
      ]_vars

\* C4: when a run whose Search call succeeded (with non-empty content) and
\* whose Synthesize call failed ends, raw_news still holds the Search output
\* and is non-empty, synthesized_news is empty, error_message is non-empty
\* and is_loading is FALSE.
C4_SynthesisFailure ==
    [][\A r \in Runs :
         (EndsFailedAt(r, "synthesis_wait") /\ search_response[r] # "") =>
            /\ State'.raw_news = search_response[r]
            /\ State'.raw_news # ""
            /\ State'.synthesized_news = ""
            /\ State'.error_message # ""
            /\ State'.is_loading = FALSE
      ]_vars

\* C5: at most one of (a) is_loading, (b) not is_loading with error_message
\* non-empty, (c) not is_loading with final_summary non-empty holds: with
\* is_loading FALSE, error_message and final_summary are never both non-empty.
C5_OneOfThree ==
    ~(/\ State.is_loading = FALSE
      /\ State.error_message # ""
      /\ State.final_summary # "")

\* C6: no two runs are in progress at the same time: a run commits its reset
\* only in a state where is_loading is FALSE and no other run is in progress.
C6_NoConcurrentRuns ==
    [][\A r \in Runs :
         CommitsReset(r) =>
            /\ State.is_loading = FALSE
            /\ \A q \in Runs : pc[q] \notin InProgress
      ]_vars

\* C7: the text passed to Synthesize is the content the run's own Search call
\* returned, and the text passed to Summarize is the content the run's own
\* Synthesize call returned.
C7_StageOutputFeedsNext ==
    \A r \in Runs :
       /\ pc[r] = "synthesis_wait" =>
             request[r] = Request("synthesis_agent",
                                  "Synthesize these news articles:\n" \o search_response[r])
       /\ pc[r] = "summary_wait" =>
             request[r] = Request("summary_agent",
                                  "Summarize this synthesis:\n" \o synthesis_response[r])

\* C8: update_topic(v) sets topic to v for every v, the empty string included,
\* and changes no other field; applied twice it yields what it yields applied
\* once; a step that changes topic moves no task, makes no call and changes
\* nothing else.  In every state, a run in progress or not.
C8_UpdateTopicFrame ==
    [][/\ \A v \in Topics :
            LET s1 == update_topic(State, v) IN
              /\ s1.topic = v
              /\ s1.raw_news = State.raw_news
              /\ s1.synthesized_news = State.synthesized_news
              /\ s1.final_summary = State.final_summary
              /\ s1.is_loading = State.is_loading
              /\ s1.error_message = State.error_message
              /\ update_topic(s1, v) = s1
       /\ State'.topic # State.topic =>
            /\ State' = [State EXCEPT !.topic = State'.topic]
            /\ UNCHANGED <<pc, locals, calls>>
      ]_vars

\* The topic has been set to the empty string while a run has its Synthesize
\* call pending, and the results the run has committed are still in place.
C8_Witness ==
    /\ State.topic = ""
    /\ pc[1] = "synthesis_wait"
    /\ State.is_loading = TRUE
    /\ State.raw_news = "n1"

\* C9: while a run is between its reset and its terminal write, is_loading is TRUE.
C9_LoadingWhileRunning ==
    \A r \in Runs : pc[r] \in InProgress => State.is_loading = TRUE

\* Every started run eventually ends, Completed or Failed.
EveryRunEnds == \A r \in Runs : (pc[r] # "none") ~> (pc[r] \in Ended)

\* C10: every started run eventually ends, Completed or Failed, its terminal
\* write leaving is_loading FALSE; and from a state where is_loading is FALSE
\* the results, the error and is_loading stay as they are until a run commits
\* its reset.
C10_TerminatesAndStays ==
    /\ EveryRunEnds
    /\ [][/\ \A r \in Runs :
               (pc[r] \notin Ended /\ pc'[r] \in Ended) => State'.is_loading = FALSE
          /\ (State.is_loading = FALSE /\ ~(\E r \in Runs : CommitsReset(r))) =>
               State' = [State EXCEPT !.topic = State'.topic]
         ]_vars

\* C11: a run whose stage fails with message m commits error_message =
\* "An error occurred: " followed by m together with is_loading = FALSE, leaves
\* final_summary empty, and after that makes no call and takes no further step.
C11_FailureCommit ==
    [][\A r \in Runs :
         /\ (pc[r] \in Waiting /\ pc'[r] = "failed") =>
               /\ State'.error_message = "An error occurred: " \o e'[r]
               /\ State'.is_loading = FALSE
               /\ State'.final_summary = ""
         /\ pc[r] = "failed" =>
               /\ pc'[r] = "failed"
               /\ invoked'[r] = invoked[r]
               /\ request'[r] = NoRequest
      ]_vars

StageOrder == <<"search_agent", "synthesis_agent", "summary_agent">>

\* C12: within one run Search, Synthesize and Summarize are invoked at most
\* once each and in that order; Synthesize only after the run has committed
\* raw_news, Summarize only after it has committed synthesized_news; once a
\* stage of the run has failed the run invokes nothing more.
C12_OncePerStageInOrder ==
    [][\A r \in Runs :
         /\ Len(invoked[r]) <= 3
         /\ invoked[r] = SubSeq(StageOrder, 1, Len(invoked[r]))
         /\ Len(invoked[r]) >= 2 => search_response[r] # Unbound
         /\ Len(invoked[r]) >= 3 => synthesis_response[r] # Unbound
         /\ e[r] # Unbound => (pc[r] = "failed" /\ invoked'[r] = invoked[r])
      ]_vars

\* Run 1 has invoked the three agents in order and completed; run 2 has ended
\* on the failure of its Search call, its only call.
C12_Witness ==
    /\ pc[1] = "completed"
    /\ invoked[1] = StageOrder
    /\ pc[2] = "failed"
    /\ e[2] = "timeout"
    /\ invoked[2] = <<"search_agent">>

\* C13: the fields of a group are written in one step: is_loading becomes TRUE
\* together with error_message and the three results being cleared, and
\* final_summary or error_message becomes non-empty together with is_loading
\* FALSE; no state shows final_summary or error_message non-empty while
\* is_loading is TRUE.
C13_GroupsAreAtomic ==
    [][/\ (State'.is_loading /\ ~State.is_loading) =>
            (State'.error_message = "" /\ NoResults(State'))
       /\ (State'.final_summary # State.final_summary /\ State'.final_summary # "") =>
            ~State'.is_loading
       /\ (State'.error_message # State.error_message /\ State'.error_message # "") =>
            ~State'.is_loading
       /\ State.is_loading => (State.final_summary = "" /\ State.error_message = "")
       /\ \A r \in Runs : (pc[r] = "summary_wait" /\ pc'[r] \in Ended) => ~State'.is_loading
      ]_vars

\* Run 1 has committed its success: final_summary is set and is_loading is FALSE.
C13_Witness ==
    /\ pc[1] = "completed"
    /\ summary_response[1] = "n1"
    /\ State.final_summary = "n1"
    /\ State.is_loading = FALSE

\* C14: in a terminal state with final_summary non-empty, raw_news,
\* synthesized_news and final_summary are the three outputs of one completed run.
C14_ResultsOfOneRun ==
    (State.is_loading = FALSE /\ State.final_summary # "") =>
        \E r \in Runs :
           /\ pc[r] = "completed"
           /\ State.raw_news = search_response[r]
           /\ State.synthesized_news = synthesis_response[r]
           /\ State.final_summary = summary_response[r]

\* C15: the Search request of a run is built from the topic State holds in the
\* step that makes the call (after the reset commit); a later change of topic
\* changes neither that pending request nor the Synthesize and Summarize
\* requests, which are built from raw_news and synthesized_news alone.
C15_TopicReadAtSearchCall ==
    [][\A r \in Runs :
         /\ (Len(invoked[r]) = 0 /\ Len(invoked'[r]) = 1) =>
               /\ pc[r] = "search"
               /\ request'[r] = Request("search_agent",
                                        "Find recent news about " \o State.topic)
         /\ State'.topic # State.topic => request'[r] = request[r]
         /\ (Len(invoked[r]) = 1 /\ Len(invoked'[r]) = 2) =>
               request'[r] = Request("synthesis_agent",
                                     "Synthesize these news articles:\n" \o State.raw_news)
         /\ (Len(invoked[r]) = 2 /\ Len(invoked'[r]) = 3) =>
               request'[r] = Request("summary_agent",
                                     "Summarize this synthesis:\n" \o State.synthesized_news)
      ]_vars

\* The topic was edited to the empty string before run 1 made its Search call
\* and edited back while the call is pending: the request keeps the empty topic.
C15_Witness ==
    /\ pc[1] = "search_wait"
    /\ request[1] = Request("search_agent", "Find recent news about ")
    /\ State.topic = "AI Agents"

====
